---- MODULE Spec2Model ----
(***************************************************************************)
(* A model of speclite/redshift.py: the exponent registry, redshift_array, *)
(* redshift and apply_redshift_transform.                                  *)
(*                                                                         *)
(* Numbers are exact rationals <<n, d>> (d > 0); <<1, 0>> stands for a     *)
(* non-finite float.  A numpy array is a record [dtype, shape, data] held  *)
(* in a heap and referred to by its index there, so that "the same array"  *)
(* is "the same index".  Shapes have rank 0 (a scalar) or 1.               *)
(***************************************************************************)
EXTENDS Integers, Sequences, FiniteSets, TLC

VARIABLES
    exponents,   \* the module-level registry (redshift.py:21-27)
    heap,        \* every array alive, by reference
    pre,         \* the heap as it was when the call was made
    pc,          \* where the running call stands
    call,        \* the arguments of the call
    ret,         \* [err, value]: the exception raised, or the value returned
    z_in,        \* redshift(): the resolved z_in (a reference, 0 before)
    z_out,       \* redshift(): the resolved z_out
    arrays_in,   \* redshift(): ordered mapping name -> reference
    arrays_out,  \* redshift(): ordered mapping name -> reference
    data_out,    \* redshift(): the output table, None before/when omitted
    todo         \* the names the running loop has still to visit

vars == <<exponents, heap, pre, pc, call, ret, z_in, z_out,
          arrays_in, arrays_out, data_out, todo>>

-----------------------------------------------------------------------------
(* Bounds of the model.                                                    *)

MaxZ == 1
MaxLen == 3
MaxExp == 2
MaxCols == 2

-----------------------------------------------------------------------------
(* Python's None and optional values.                                      *)

None == <<>>
Some(v) == <<v>>

-----------------------------------------------------------------------------
(* Exact arithmetic on the elements.                                       *)

Abs(x) == IF x < 0 THEN -x ELSE x

RECURSIVE Gcd(_, _)
Gcd(a, b) == IF b = 0 THEN a ELSE Gcd(b, a % b)

Rat(n, d) ==
    IF d = 0 THEN <<(IF n > 0 THEN 1 ELSE IF n < 0 THEN -1 ELSE 0), 0>>
    ELSE LET s == IF d < 0 THEN -1 ELSE 1
             g == Gcd(Abs(n), Abs(d))
         IN  <<(s * n) \div g, (s * d) \div g>>

Num(n) == <<n, 1>>
Inf == <<1, 0>>

IsFinite(v) == v[2] # 0

RAdd(a, b) == Rat(a[1] * b[2] + b[1] * a[2], a[2] * b[2])
RMul(a, b) == Rat(a[1] * b[1], a[2] * b[2])
RDiv(a, b) == Rat(a[1] * b[2], a[2] * b[1])
RLeq(a, b) == a[1] * b[2] <= b[1] * a[2]

RECURSIVE RPowNat(_, _)
RPowNat(a, n) == IF n = 0 THEN Num(1) ELSE RMul(a, RPowNat(a, n - 1))

RPowSkipZero(a, n) ==
    IF n = 0 THEN a
    ELSE IF n < 0 THEN RPowNat(RDiv(Num(1), a), -n) ELSE RPowNat(a, n)

\* a ** n for an integer n
RPow(a, n) == IF n < 0 THEN RPowNat(RDiv(Num(1), a), -n) ELSE RPowNat(a, n)

\* float -> int conversion: the fraction is dropped (towards zero)
Trunc(v) ==
    IF v[1] >= 0 THEN Num(v[1] \div v[2]) ELSE Num(-((-v[1]) \div v[2]))

\* what storing the value v into an array of element type dtype keeps
Cast(v, dtype) == IF dtype = "int" THEN Trunc(v) ELSE v

NumberDtypes == {"float", "int"}

-----------------------------------------------------------------------------
(* Shapes and broadcasting.                                                *)

RECURSIVE Size(_)
Size(shape) == IF shape = <<>> THEN 1 ELSE Head(shape) * Size(Tail(shape))

\* one dimension of a broadcast; 0 marks dimensions that do not agree
BroadcastDim(a, b) ==
    IF a = b THEN a ELSE IF a = 1 THEN b ELSE IF b = 1 THEN a ELSE 0

Pad(s, n) == [i \in 1..n |-> IF i <= n - Len(s) THEN 1 ELSE s[i - (n - Len(s))]]

BroadcastShape(s, t) ==
    LET n == IF Len(s) > Len(t) THEN Len(s) ELSE Len(t)
    IN  [i \in 1..n |-> BroadcastDim(Pad(s, n)[i], Pad(t, n)[i])]

Broadcast3(a, b, c) == BroadcastShape(BroadcastShape(a, b), c)

Compatible(shape) == \A i \in 1..Len(shape) : shape[i] # 0

\* element k of the array a seen through a broadcast (rank <= 1)
At(a, k) == a.data[IF Size(a.shape) = 1 THEN 1 ELSE k]

Array(dtype, shape, data) == [dtype |-> dtype, shape |-> shape, data |-> data]

-----------------------------------------------------------------------------
(* The exponent registry.                                                  *)

ExponentsTable ==
    [ wlen |-> 1, wavelength |-> 1, wavelength_error |-> 1,
      freq |-> -1, frequency |-> -1, frequency_error |-> -1,
      flux |-> -1, irradiance_per_wavelength |-> -1,
      irradiance_per_frequency |-> 1,
      ivar |-> 2, ivar_irradiance_per_wavelength |-> 2,
      ivar_irradiance_per_frequency |-> -2 ]

-----------------------------------------------------------------------------
(* redshift_array                                                          *)

InvalidZStrict(z) == \E k \in 1..Len(z.data) : ~RLeq(Num(-1), z.data[k])

\* np.any(z <= -1)
InvalidZ(z) == \E k \in 1..Len(z.data) : RLeq(z.data[k], Num(-1))

ResolveExponentRegistryFirst(exponent, name, registry) ==
    IF name \in DOMAIN registry THEN registry[name]
    ELSE IF exponent = None THEN 0 ELSE exponent[1]

\* lines 137-141: the explicit exponent, else the registry's, else 0
ResolveExponent(exponent, name, registry) ==
    IF exponent = None /\ name \in DOMAIN registry THEN registry[name]
    ELSE IF exponent = None THEN 0
    ELSE exponent[1]

\* y_in * ((1. + z_out) / (1. + z_in)) ** exponent, over the broadcast shape
Transformed(zi, zo, yi, exponent, shape_out) ==
    [k \in 1..Size(shape_out) |->
        RMul(At(yi, k),
             RPow(RDiv(RAdd(Num(1), At(zo, k)), RAdd(Num(1), At(zi, k))),
                  exponent))]

\* speclite.utility.empty_like(y_in, shape, dtype): a new, unfilled array
EmptyLike(template, shape, dtype) ==
    Array(dtype, shape, [k \in 1..Size(shape) |-> Num(0)])

OutputErrorDtypeFirst(h, y_out, shape_out, dtype) ==
    IF y_out = 0 THEN "none"
    ELSE IF h[y_out].dtype # dtype THEN "DtypeMismatch"
    ELSE IF h[y_out].shape # shape_out THEN "ShapeMismatch"
    ELSE "none"

\* lines 150-160: the checks of a supplied y_out
OutputError(h, y_out, shape_out, dtype) ==
    IF y_out = 0 THEN "none"
    ELSE IF h[y_out].shape # shape_out THEN "ShapeMismatch"
    ELSE IF h[y_out].dtype # dtype THEN "DtypeMismatch"
    ELSE "none"

\* lines 122-160: the first check that fails, "none" when all pass
FirstError(h, zi, zo, yi, y_out) ==
    IF InvalidZ(h[zi]) THEN "InvalidRedshift"
    ELSE IF InvalidZ(h[zo]) THEN "InvalidRedshift"
    ELSE IF h[yi].dtype \notin NumberDtypes THEN "NonNumericInput"
    ELSE IF \E k \in 1..Len(h[yi].data) : ~IsFinite(h[yi].data[k])
         THEN "NonFiniteInput"
    ELSE IF ~Compatible(Broadcast3(h[zi].shape, h[zo].shape, h[yi].shape))
         THEN "BroadcastError"
    ELSE OutputError(h, y_out,
                     Broadcast3(h[zi].shape, h[zo].shape, h[yi].shape),
                     h[yi].dtype)

\* line 163, y_out[:] = values: the values are converted to y_out's element
\* type; a 0-dimensional array cannot be indexed by [:]
Store(h, target, values) ==
    [h EXCEPT ![target].data = [k \in 1..Len(values) |->
                                   Cast(values[k], h[target].dtype)]]

\* lines 150-165 once every check has passed: the allocation when y_out is
\* None, then y_out[:] = ... and the return
Write(h, zi, zo, yi, y_out, exponent, name, registry) ==
    LET shape_out == Broadcast3(h[zi].shape, h[zo].shape, h[yi].shape)
        h1 == IF y_out = 0
              THEN Append(h, EmptyLike(h[yi], shape_out, h[yi].dtype))
              ELSE h
        target == IF y_out = 0 THEN Len(h1) ELSE y_out
        values == Transformed(h[zi], h[zo], h[yi],
                              ResolveExponent(exponent, name, registry),
                              shape_out)
    IN  IF shape_out = <<>>
        THEN [err |-> "IndexError", heap |-> h, value |-> 0]
        ELSE [err |-> "none", heap |-> Store(h1, target, values),
              value |-> target]

RedshiftArrayLateDtypeCheck(h, zi, zo, yi, y_out, exponent, name, registry) ==
    LET err == FirstError(h, zi, zo, yi, y_out)
    IN  IF err = "DtypeMismatch"
        THEN [err |-> err,
              heap |-> Store(h, y_out,
                             Transformed(h[zi], h[zo], h[yi],
                                 ResolveExponent(exponent, name, registry),
                                 h[y_out].shape)),
              value |-> 0]
        ELSE IF err # "none" THEN [err |-> err, heap |-> h, value |-> 0]
        ELSE Write(h, zi, zo, yi, y_out, exponent, name, registry)

\* lines 85-165.  h: the heap; zi, zo, yi: references; y_out: a reference
\* or 0 for None; exponent: None or Some(n).  The result is the exception or
\* the reference returned, and the heap the call leaves.
RedshiftArray(h, zi, zo, yi, y_out, exponent, name, registry) ==
    LET err == FirstError(h, zi, zo, yi, y_out)
    IN  IF err # "none" THEN [err |-> err, heap |-> h, value |-> 0]
        ELSE Write(h, zi, zo, yi, y_out, exponent, name, registry)

-----------------------------------------------------------------------------
(* The calls of redshift_array the model makes.  The heap of a call holds   *)
(* z_in at 1, z_out at 2, y_in at 3 and one more array at 4; y_out is None  *)
(* (0) or any of the four.                                                  *)

ZVals == {-1} \cup 0..MaxZ
ZValid == 0..MaxZ
YVals == {1, 3}

Scalar(dtype, v) == Array(dtype, <<>>, <<v>>)
Vectors(dtype, n, S) == {Array(dtype, <<n>>, d) : d \in [1..n -> S]}
Uniform(dtype, n, v) == Array(dtype, <<n>>, [k \in 1..n |-> v])

\* every z: scalars, and vectors of each length with every mix of elements
ZArrays ==
    {Scalar("float", Num(v)) : v \in {-2} \cup ZVals}
    \cup UNION {Vectors("float", n, {Num(v) : v \in ZVals}) : n \in 1..MaxLen}

\* scalars, and the vectors whose elements are all -1 or all MaxZ
ZSimple ==
    {Scalar("float", Num(v)) : v \in {-2} \cup ZVals}
    \cup {Uniform("float", n, Num(v)) : n \in 1..MaxLen, v \in {-1, MaxZ}}

\* valid z only, one per shape (two scalars)
ZShapes ==
    {Scalar("float", Num(v)) : v \in {0, MaxZ}}
    \cup {Uniform("float", n, Num(MaxZ)) : n \in 1..MaxLen}

YFinite(dtype) ==
    {Scalar(dtype, Num(v)) : v \in YVals}
    \cup UNION {Vectors(dtype, n, {Num(v) : v \in YVals}) : n \in 1..MaxLen}

YBad ==
    { Scalar("float", Inf), Uniform("float", MaxLen, Inf),
      Array("float", <<2>>, <<Num(1), Inf>>),
      Uniform("str", MaxLen, Num(0)) }

YArrays == YFinite("float") \cup YFinite("int") \cup YBad

YFew == { Array("float", <<2>>, <<Num(1), Num(3)>>),
          Array("float", <<2>>, <<Num(1), Inf>>),
          Uniform("str", 2, Num(0)) }

\* the array at 4: its elements are 7, which no transform of YVals yields
Buffers ==
    {Array(dtype, shape, [k \in 1..Size(shape) |-> Num(7)]) :
        dtype \in NumberDtypes, shape \in {<<>>} \cup {<<n>> : n \in 1..MaxLen}}

DefaultBuffer == Array("float", <<2>>, <<Num(7), Num(7)>>)

Exponents == {None} \cup {Some(n) : n \in -MaxExp..MaxExp}

Names == DOMAIN ExponentsTable \cup {"y"}

NoRet == [err |-> "pending", value |-> 0]

\* the state in which redshift_array has just been called
ArrayCall(zi, zo, yi, buf, y_out, exponent, name) ==
    /\ heap = <<zi, zo, yi, buf>>
    /\ pre = <<zi, zo, yi, buf>>
    /\ call = [op |-> "redshift_array", z_in |-> 1, z_out |-> 2, y_in |-> 3,
               y_out |-> y_out, exponent |-> exponent, name |-> name]
    /\ exponents = ExponentsTable
    /\ pc = "called"
    /\ ret = NoRet
    /\ z_in = None /\ z_out = None
    /\ arrays_in = <<>> /\ arrays_out = <<>> /\ data_out = None
    /\ todo = <<>>

\* every pair of redshifts of which one at least is simple
RedshiftSweep ==
    \E zs \in (ZArrays \X ZSimple) \cup (ZSimple \X ZArrays) :
    \E yi \in YFew, y_out \in 0..4 :
        ArrayCall(zs[1], zs[2], yi, DefaultBuffer, y_out, None, "flux")

\* every y_in and every y_out, under valid redshifts of every shape
ShapeSweep ==
    \E zi \in ZShapes, zo \in ZShapes, yi \in YArrays :
    \E en \in {<<None, "y">>, <<None, "flux">>, <<Some(0), "flux">>} :
        \/ \E y_out \in 0..3 :
              ArrayCall(zi, zo, yi, DefaultBuffer, y_out, en[1], en[2])
        \/ \E buf \in Buffers :
              ArrayCall(zi, zo, yi, buf, 4, en[1], en[2])

\* every exponent and every name, under valid scalar redshifts
ExponentSweep ==
    \E a \in ZValid, b \in ZValid, dtype \in NumberDtypes :
    \E y_out \in {0, 3}, exponent \in Exponents, name \in Names :
        ArrayCall(Scalar("float", Num(a)), Scalar("float", Num(b)),
                  Array(dtype, <<2>>, <<Num(1), Num(3)>>),
                  DefaultBuffer, y_out, exponent, name)

InitArray == RedshiftSweep \/ ShapeSweep \/ ExponentSweep

\* one call of redshift_array, from entry to the return or the exception
redshift_array ==
    /\ pc = "called"
    /\ call.op = "redshift_array"
    /\ LET r == RedshiftArray(heap, call.z_in, call.z_out, call.y_in,
                              call.y_out, call.exponent, call.name, exponents)
       IN  /\ heap' = r.heap
           /\ ret' = [err |-> r.err, value |-> r.value]
    /\ pc' = "done"
    /\ UNCHANGED <<exponents, pre, call, z_in, z_out, arrays_in, arrays_out,
                   data_out, todo>>

NextArray == redshift_array

SpecArray == InitArray /\ [][NextArray]_vars

-----------------------------------------------------------------------------
(* redshift: ordered mappings (collections.OrderedDict) are sequences of    *)
(* <<name, reference>> pairs.                                               *)

Keys(m) == [i \in 1..Len(m) |-> m[i][1]]
Has(m, name) == \E i \in 1..Len(m) : m[i][1] = name
Get(m, name) == m[CHOOSE i \in 1..Len(m) : m[i][1] = name][2]

PutFront(m, name, v) ==
    IF Has(m, name)
    THEN [i \in 1..Len(m) |-> IF m[i][1] = name THEN <<name, v>> ELSE m[i]]
    ELSE <<<<name, v>>>> \o m

\* line 261, arrays_out[name] = ...: a known key keeps its place, a new one
\* goes last
Put(m, name, v) ==
    IF Has(m, name)
    THEN [i \in 1..Len(m) |-> IF m[i][1] = name THEN <<name, v>> ELSE m[i]]
    ELSE Append(m, <<name, v>>)

\* speclite.utility.get_options: the options of the call, None by default
GetOptions(c) == c.options

\* speclite.utility.prepare_data: the columns of a table, in its order
PrepareData(table) == table

\* speclite.utility.tabular_like: a table of the columns of the mapping, in
\* the mapping's order
TabularLike(data_in, mapping) == mapping

CombineOptionsTruthy(options) ==
    IF options.z # None /\ options.z # Some(0)
    THEN IF options.z_in # None \/ options.z_out # None
         THEN [err |-> "ConflictingRedshiftSpec", z_in |-> None, z_out |-> None]
         ELSE [err |-> "none", z_in |-> Some(0), z_out |-> options.z]
    ELSE IF options.z_in = None \/ options.z_out = None
         THEN [err |-> "ConflictingRedshiftSpec", z_in |-> None, z_out |-> None]
    ELSE [err |-> "none", z_in |-> options.z_in, z_out |-> options.z_out]

\* lines 228-238: combine the z, z_in, z_out options
CombineOptions(options) ==
    IF options.z # None
    THEN IF options.z_in # None \/ options.z_out # None
         THEN [err |-> "ConflictingRedshiftSpec", z_in |-> None, z_out |-> None]
         ELSE [err |-> "none", z_in |-> Some(0), z_out |-> options.z]
    ELSE IF options.z_in = None \/ options.z_out = None
         THEN [err |-> "ConflictingRedshiftSpec", z_in |-> None, z_out |-> None]
    ELSE [err |-> "none", z_in |-> options.z_in, z_out |-> options.z_out]

YOutForUnchecked(given, mapping, name) ==
    IF given = None \/ ~Has(mapping, name)
    THEN [err |-> "none", y_out |-> 0]
    ELSE [err |-> "none", y_out |-> Get(mapping, name)]

\* lines 253-260: the y_out of one column
YOutFor(given, mapping, name) ==
    IF given = None THEN [err |-> "none", y_out |-> 0]
    ELSE IF ~Has(mapping, name)
         THEN [err |-> "MissingOutputColumn", y_out |-> 0]
    ELSE [err |-> "none", y_out |-> Get(mapping, name)]

\* lines 261-262, redshift_array(z_in, z_out, arrays_in[name], y_out,
\* name=name): np.asanyarray makes the two redshifts arrays for the time of
\* the call; what is left in the heap is the arrays that were there and the
\* one the call allocated, if any
CallRedshiftArray(h, zi, zo, yi, y_out, name, registry) ==
    LET n == Len(h)
        r == RedshiftArray(h \o <<Scalar("float", Num(zi)),
                                  Scalar("float", Num(zo))>>,
                           n + 1, n + 2, yi, y_out, None, name, registry)
    IN  IF r.err # "none" THEN [err |-> r.err, heap |-> h, value |-> 0]
        ELSE IF r.value = n + 3
             THEN [err |-> "none",
                   heap |-> Append(SubSeq(r.heap, 1, n), r.heap[n + 3]),
                   value |-> n + 1]
        ELSE [err |-> "none", heap |-> SubSeq(r.heap, 1, n), value |-> r.value]

\* lines 225-238
ResolveOptions ==
    /\ pc = "called"
    /\ call.op = "redshift"
    /\ LET r == CombineOptions(GetOptions(call))
       IN  /\ z_in' = r.z_in
           /\ z_out' = r.z_out
           /\ IF r.err # "none"
              THEN pc' = "done" /\ ret' = [err |-> r.err, value |-> None]
              ELSE pc' = "prepare" /\ ret' = ret
    /\ UNCHANGED <<exponents, heap, pre, call, arrays_in, arrays_out,
                   data_out, todo>>

\* lines 240-250
Prepare ==
    /\ pc = "prepare"
    /\ arrays_in' = PrepareData(call.columns)
    /\ IF GetOptions(call).data_out # None
       THEN /\ arrays_out' = PrepareData(GetOptions(call).data_out[1])
            /\ data_out' = GetOptions(call).data_out
       ELSE /\ arrays_out' = <<>>
            /\ data_out' = None
    /\ todo' = Keys(PrepareData(call.columns))
    /\ pc' = "loop"
    /\ UNCHANGED <<exponents, heap, pre, call, ret, z_in, z_out>>

\* lines 252-262: one turn of the loop over arrays_in
TransformColumn ==
    /\ pc = "loop"
    /\ todo # <<>>
    /\ LET name == Head(todo)
           o == YOutFor(data_out, arrays_out, name)
           r == CallRedshiftArray(heap, z_in[1], z_out[1],
                                  Get(arrays_in, name), o.y_out, name,
                                  exponents)
       IN  IF o.err # "none"
           THEN /\ pc' = "done"
                /\ ret' = [err |-> o.err, value |-> None]
                /\ UNCHANGED <<heap, arrays_out, todo>>
           ELSE IF r.err # "none"
           THEN /\ pc' = "done"
                /\ ret' = [err |-> r.err, value |-> None]
                /\ UNCHANGED <<heap, arrays_out, todo>>
           ELSE /\ heap' = r.heap
                /\ arrays_out' = Put(arrays_out, name, r.value)
                /\ todo' = Tail(todo)
                /\ UNCHANGED <<pc, ret>>
    /\ UNCHANGED <<exponents, pre, call, z_in, z_out, arrays_in, data_out>>

\* lines 264-271
Reassemble ==
    /\ pc = "loop"
    /\ todo = <<>>
    /\ data_out' = IF data_out = None
                   THEN Some(TabularLike(call.columns, arrays_out))
                   ELSE data_out
    /\ ret' = [err |-> "none", value |-> data_out']
    /\ pc' = "done"
    /\ UNCHANGED <<exponents, heap, pre, call, z_in, z_out, arrays_in,
                   arrays_out, todo>>

-----------------------------------------------------------------------------
(* The calls of redshift the model makes.  Every column has MaxLen rows.    *)

ColNames == {"wlen", "flux", "id"}

ColData == [k \in 1..MaxLen |-> Num(2 * k - 1)]

\* an input column: floats, integers, or floats of which the last is not
\* finite
InKinds == {"float", "int", "bad"}
InColumn(kind) ==
    IF kind = "bad"
    THEN Array("float", <<MaxLen>>, [ColData EXCEPT ![MaxLen] = Inf])
    ELSE Array(kind, <<MaxLen>>, ColData)

\* a column of a data_out of its own: floats, integers, or one row short
OutKinds == {"float", "int", "short"}
OutColumn(kind) ==
    IF kind = "short"
    THEN Uniform("float", MaxLen - 1, Num(7))
    ELSE Uniform(kind, MaxLen, Num(7))

NameSeqs(lo, hi) ==
    UNION {{s \in [1..n -> ColNames] :
               \A i, j \in 1..n : i # j => s[i] # s[j]} : n \in lo..hi}

Table(names, first) == [i \in 1..Len(names) |-> <<names[i], first + i - 1>>]

OptionValues == {None} \cup {Some(v) : v \in ZVals}

\* the state in which redshift has just been called
RedshiftCall(z, zi, zo, columns, given, h) ==
    /\ heap = h
    /\ pre = h
    /\ call = [op |-> "redshift",
               options |-> [z |-> z, z_in |-> zi, z_out |-> zo,
                            data_out |-> given],
               columns |-> columns]
    /\ exponents = ExponentsTable
    /\ pc = "called"
    /\ ret = NoRet
    /\ z_in = None /\ z_out = None
    /\ arrays_in = <<>> /\ arrays_out = <<>> /\ data_out = None
    /\ todo = <<>>

\* data_out omitted, the input table itself, or a table of its own
WithOutputs(z, zi, zo, names, kinds) ==
    LET cols == [i \in 1..Len(names) |-> InColumn(kinds[i])]
        columns == Table(names, 1)
    IN  \/ RedshiftCall(z, zi, zo, columns, None, cols)
        \/ RedshiftCall(z, zi, zo, columns, Some(columns), cols)
        \/ \E onames \in NameSeqs(0, MaxCols) :
           \E okinds \in [1..Len(onames) -> OutKinds] :
              RedshiftCall(z, zi, zo, columns,
                           Some(Table(onames, Len(names) + 1)),
                           cols \o [i \in 1..Len(onames) |-> OutColumn(okinds[i])])

\* every combination of the three options, on float columns
OptionSweep ==
    \E z \in OptionValues, zi \in OptionValues, zo \in OptionValues :
    \E names \in NameSeqs(1, 2) :
        \/ RedshiftCall(z, zi, zo, Table(names, 1), None,
                        [i \in 1..Len(names) |-> InColumn("float")])
        \/ RedshiftCall(z, zi, zo, Table(names, 1), Some(Table(names, 1)),
                        [i \in 1..Len(names) |-> InColumn("float")])

\* every input table and every data_out, under z = MaxZ and under
\* z_in = MaxZ, z_out = 0
DataSweep ==
    \E names \in NameSeqs(1, MaxCols) :
    \E kinds \in [1..Len(names) -> InKinds] :
        \/ WithOutputs(Some(MaxZ), None, None, names, kinds)
        \/ WithOutputs(None, Some(MaxZ), Some(0), names, kinds)

InitRedshift == OptionSweep \/ DataSweep

NextRedshift == ResolveOptions \/ Prepare \/ TransformColumn \/ Reassemble

SpecRedshift == InitRedshift /\ [][NextRedshift]_vars

-----------------------------------------------------------------------------
(* apply_redshift_transform.  An entry of data_in or data_out is an array   *)
(* object [buf, idx, base]: buf is the array in the heap whose memory it    *)
(* reads and writes, idx the places of its elements there, and base the     *)
(* array it is a view of (numpy's .base), 0 for an array that owns its      *)
(* memory.                                                                  *)

Owner(r, n) == [buf |-> r, idx |-> [k \in 1..n |-> k], base |-> 0]

\* a[:], a[::-1] and a[:-1] of the array a that owns buf r
WholeView(r, n) == [buf |-> r, idx |-> [k \in 1..n |-> k], base |-> r]
ReversedView(r, n) == [buf |-> r, idx |-> [k \in 1..n |-> n + 1 - k], base |-> r]
SlicedView(r, n) == [buf |-> r, idx |-> [k \in 1..(n - 1) |-> k], base |-> r]

Read(h, a) == [k \in 1..Len(a.idx) |-> h[a.buf].data[a.idx[k]]]

\* a[:] = values, values of a's length or of length 1
Assign(h, a, values) ==
    [h EXCEPT ![a.buf].data =
        [p \in 1..Len(@) |->
            IF \E k \in 1..Len(a.idx) : a.idx[k] = p
            THEN Cast(values[IF Len(values) = 1 THEN 1
                             ELSE CHOOSE k \in 1..Len(a.idx) : a.idx[k] = p],
                      h[a.buf].dtype)
            ELSE @[p]]]

\* out.base is in_: in_ is the very array out is a view of
BaseIs(out, in_) == out.base # 0 /\ in_.base = 0 /\ in_.buf = out.base

\* lines 72-80: the loop over data_out, from the entries still to do
RECURSIVE FillFrom(_, _, _, _, _, _)
FillFrom(h, names, din, dout, zfactor, exponent) ==
    IF names = <<>> THEN [err |-> "none", heap |-> h]
    ELSE LET name == Head(names)
             n == IF exponent[name] = None THEN 0 ELSE exponent[name][1]
             out == Get(dout, name)
         IN  IF ~Has(din, name)
             THEN [err |-> "KeyError", heap |-> h]
             ELSE IF n # 0 \/ ~BaseIs(out, Get(din, name))
             THEN LET src == Read(h, Get(din, name))
                      values == [k \in 1..Len(src) |->
                                    RMul(src[k], RPow(zfactor, n))]
                  IN  IF Len(values) \notin {1, Len(out.idx)}
                      THEN [err |-> "ValueError", heap |-> h]
                      ELSE FillFrom(Assign(h, out, values), Tail(names),
                                    din, dout, zfactor, exponent)
             ELSE FillFrom(h, Tail(names), din, dout, zfactor, exponent)

\* lines 61-82; zi, zo: scalars; din, dout: ordered mappings name -> array
\* object; exponent: name -> None or Some(n)
ApplyRedshiftTransform(h, zi, zo, din, dout, exponent) ==
    IF zi <= -1 THEN [err |-> "InvalidRedshift", heap |-> h]
    ELSE IF zo <= -1 THEN [err |-> "InvalidRedshift", heap |-> h]
    ELSE FillFrom(h, Keys(dout), din, dout, Rat(1 + zo, 1 + zi), exponent)

\* one call of apply_redshift_transform, from entry to the return or the
\* exception
apply_redshift_transform ==
    /\ pc = "called"
    /\ call.op = "apply_redshift_transform"
    /\ LET r == ApplyRedshiftTransform(heap, call.z_in, call.z_out,
                                       call.data_in, call.data_out,
                                       call.exponent)
       IN  /\ heap' = r.heap
           /\ ret' = [err |-> r.err, value |-> call.data_out]
    /\ pc' = "done"
    /\ UNCHANGED <<exponents, pre, call, z_in, z_out, arrays_in, arrays_out,
                   data_out, todo>>

-----------------------------------------------------------------------------
(* The calls of apply_redshift_transform the model makes.  data_in holds    *)
(* "flux" and "id", whose memory is at 1 and 2 in the heap; the arrays that *)
(* data_out owns are at 3 and 4.                                            *)

BulkNames == <<"flux", "id">>

\* data_in[name] owns its memory, or is a view of an array that does
BulkInKinds == {"own", "view"}
BulkIn(kind, r) ==
    IF kind = "own" THEN Owner(r, MaxLen) ELSE WholeView(r, MaxLen)

\* data_out[name]: an array of its own (floats or integers), data_in[name]
\* itself, or a view of data_in[name]: all of it, reversed, sliced
BulkOutKinds == {"own", "own_int", "same", "whole", "reversed", "sliced"}
BulkOut(kind, in_, r) ==
    CASE kind \in {"own", "own_int"} -> Owner(r, MaxLen)
      [] kind = "same" -> in_
      [] kind = "whole" -> WholeView(in_.buf, MaxLen)
      [] kind = "reversed" -> ReversedView(in_.buf, MaxLen)
      [] kind = "sliced" -> SlicedView(in_.buf, MaxLen)

BulkExponents == {None, Some(0), Some(-1), Some(2)}

BulkOrders == {<<>>, <<1>>, <<2>>, <<1, 2>>, <<2, 1>>}

BulkCall(zi, zo, ikinds, order, okinds, exponent) ==
    LET din == [i \in 1..2 |-> <<BulkNames[i], BulkIn(ikinds[i], i)>>]
        dout == [j \in 1..Len(order) |->
                    <<BulkNames[order[j]],
                      BulkOut(okinds[j], din[order[j]][2], 2 + order[j])>>]
        h == <<Array("float", <<MaxLen>>, ColData),
               Array("float", <<MaxLen>>, ColData),
               Uniform(IF Len(order) > 0 /\ okinds[1] = "own_int"
                       THEN "int" ELSE "float", MaxLen, Num(7)),
               Uniform(IF Len(order) > 1 /\ okinds[2] = "own_int"
                       THEN "int" ELSE "float", MaxLen, Num(7))>>
    IN  /\ heap = h
        /\ pre = h
        /\ call = [op |-> "apply_redshift_transform", z_in |-> zi,
                   z_out |-> zo, data_in |-> din, data_out |-> dout,
                   exponent |-> exponent]
        /\ exponents = ExponentsTable
        /\ pc = "called"
        /\ ret = NoRet
        /\ z_in = None /\ z_out = None
        /\ arrays_in = <<>> /\ arrays_out = <<>> /\ data_out = None
        /\ todo = <<>>

InitBulk ==
    \E zi \in ZVals, zo \in ZVals, ikinds \in [1..2 -> BulkInKinds] :
    \E order \in BulkOrders :
    \E okinds \in [1..Len(order) -> BulkOutKinds] :
    \E exponent \in [{"flux", "id"} -> BulkExponents] :
        BulkCall(zi, zo, ikinds, order, okinds, exponent)

NextBulk == apply_redshift_transform

SpecBulk == InitBulk /\ [][NextBulk]_vars

-----------------------------------------------------------------------------
(* Properties of redshift_array, checked under SpecArray.  pre[1], pre[2]   *)
(* and pre[3] are z_in, z_out and y_in as the caller passed them.           *)

ArrayDone == pc = "done" /\ call.op = "redshift_array"

\* some element is <= -1
AtMostMinusOne(a) == \E k \in 1..Len(a.data) : a.data[k][1] <= -a.data[k][2]

BroadcastOf == Broadcast3(pre[1].shape, pre[2].shape, pre[3].shape)

\* the errors of the checks that come before those of y_out
EarlierErrors ==
    {"InvalidRedshift", "NonNumericInput", "NonFiniteInput", "BroadcastError"}

ValidationErrors == EarlierErrors \cup {"ShapeMismatch", "DtypeMismatch"}

ClaimedNames ==
    { "wlen", "wavelength", "wavelength_error", "irradiance_per_frequency",
      "freq", "frequency", "frequency_error", "flux",
      "irradiance_per_wavelength", "ivar", "ivar_irradiance_per_wavelength",
      "ivar_irradiance_per_frequency" }

ClaimedExponent(name) ==
    CASE name \in {"wlen", "wavelength", "wavelength_error",
                   "irradiance_per_frequency"} -> 1
      [] name \in {"freq", "frequency", "frequency_error", "flux",
                   "irradiance_per_wavelength"} -> -1
      [] name \in {"ivar", "ivar_irradiance_per_wavelength"} -> 2
      [] name = "ivar_irradiance_per_frequency" -> -2
      [] OTHER -> 0

\* y * ((1 + zo) / (1 + zi)) ** n
Rescaled(y, zi, zo, n) ==
    RMul(y, RPow(RDiv(RAdd(Num(1), zo), RAdd(Num(1), zi)), n))

\* C2: redshift_array fails with InvalidRedshift exactly when some element of
\* z_in or of z_out is <= -1, whatever y_in, the shapes and y_out are: the
\* redshifts are checked before anything else.
C2_InvalidRedshiftFirst ==
    ArrayDone =>
        (ret.err = "InvalidRedshift"
            <=> (AtMostMinusOne(pre[1]) \/ AtMostMinusOne(pre[2])))

\* an invalid element in a vector z_out only, with a non-numeric y_in
C2_Witness ==
    /\ ArrayDone
    /\ ret.err = "InvalidRedshift"
    /\ ~AtMostMinusOne(pre[1])
    /\ pre[2].shape # <<>>
    /\ pre[3].dtype = "str"
    /\ call.y_out = 4

\* C3: a successful call returns an array of the broadcast shape of (z_in,
\* z_out, y_in) and of y_in's element type: a new array when y_out is None,
\* y_out itself otherwise.  Once the checks of the redshifts, of y_in and of
\* the broadcast have passed, a y_out of another shape fails with
\* ShapeMismatch, and one of that shape but of another element type with
\* DtypeMismatch.
C3_OutputBuffer ==
    ArrayDone =>
        /\ ret.err = "none" =>
              /\ heap[ret.value].shape = BroadcastOf
              /\ heap[ret.value].dtype = pre[3].dtype
              /\ call.y_out = 0 => ret.value \notin DOMAIN pre
              /\ call.y_out # 0 => ret.value = call.y_out
        /\ (call.y_out # 0 /\ ret.err \notin EarlierErrors) =>
              /\ ret.err = "ShapeMismatch"
                    <=> pre[call.y_out].shape # BroadcastOf
              /\ ret.err = "DtypeMismatch"
                    <=> /\ pre[call.y_out].shape = BroadcastOf
                        /\ pre[call.y_out].dtype # pre[3].dtype

\* a supplied y_out of the broadcast shape, which is not y_in's, is returned
C3_Witness ==
    /\ ArrayDone
    /\ ret.err = "none"
    /\ call.y_out = 4
    /\ heap[4].shape # pre[3].shape

\* C6 as stated: a failed validation leaves y_out unchanged, and no call
\* modifies z_in or z_out.
C6_Original ==
    ArrayDone =>
        /\ (ret.err \in ValidationErrors /\ call.y_out # 0) =>
              heap[call.y_out] = pre[call.y_out]
        /\ heap[1] = pre[1]
        /\ heap[2] = pre[2]

\* C6, amended: a call that fails leaves every array as it was (y_out
\* included, also when it is y_in), and a call that succeeds changes no
\* array but the one it was given as y_out: z_in and z_out are modified only
\* when the caller passes one of them as y_out.
C6_FailureWritesNothing ==
    ArrayDone =>
        /\ ret.err # "none" => heap = pre
        /\ ret.err = "none" =>
              \A r \in DOMAIN pre : r # call.y_out => heap[r] = pre[r]

\* y_out is y_in's own buffer, and the call fails on y_out's element type or
\* on y_in's values
C6_Witness ==
    /\ ArrayDone
    /\ \/ ret.err = "DtypeMismatch" /\ call.y_out = 4
       \/ ret.err = "NonFiniteInput" /\ call.y_out = 3
    /\ heap[call.y_out] = pre[call.y_out]

\* C9: the exponent used is the one passed, an explicit 0 included; else the
\* registry's for the name; else 0.  It is observed on the result, which is
\* y_in * ((1 + z_out) / (1 + z_in)) ** exponent stored with y_in's element
\* type.  The registry holds the twelve documented exponents at all times.
C9_ExponentResolution ==
    /\ DOMAIN exponents = ClaimedNames
    /\ \A name \in ClaimedNames : exponents[name] = ClaimedExponent(name)
    /\ (ArrayDone /\ ret.err = "none") =>
          heap[ret.value].data =
              [k \in 1..Size(BroadcastOf) |->
                  Cast(Rescaled(At(pre[3], k), At(pre[1], k), At(pre[2], k),
                                IF call.exponent # None
                                THEN call.exponent[1]
                                ELSE ClaimedExponent(call.name)),
                       pre[3].dtype)]

\* an explicit 0 for a registered name, under a factor that is not 1
C9_Witness ==
    /\ ArrayDone
    /\ ret.err = "none"
    /\ call.exponent = Some(0)
    /\ call.name = "flux"
    /\ pre[1] # pre[2]
    /\ heap[ret.value].data = pre[3].data

ZeroExponent ==
    \/ call.exponent = Some(0)
    \/ call.exponent = None /\ call.name \notin ClaimedNames

\* C10 as stated: with a zero exponent the output has y_in's values and
\* y_in's shape.
C10_Original ==
    (ArrayDone /\ ret.err = "none" /\ ZeroExponent) =>
        /\ heap[ret.value].shape = pre[3].shape
        /\ heap[ret.value].data = pre[3].data

\* C10, amended: with a zero exponent a successful call returns y_in
\* broadcast to the broadcast shape of (z_in, z_out, y_in): every element of
\* the output is exactly the element of y_in it is broadcast from, and the
\* output is y_in, shape and values, whenever that shape is y_in's.
C10_IdentityUpToBroadcast ==
    (ArrayDone /\ ret.err = "none" /\ ZeroExponent) =>
        /\ heap[ret.value].shape = BroadcastOf
        /\ \A k \in 1..Size(BroadcastOf) :
              heap[ret.value].data[k] = At(pre[3], k)
        /\ BroadcastOf = pre[3].shape =>
              heap[ret.value].data = pre[3].data

\* a vector z_out stretches a one-element y_in, under a factor that is not 1
C10_Witness ==
    /\ ArrayDone
    /\ ret.err = "none"
    /\ ZeroExponent
    /\ pre[1] # pre[2]
    /\ Size(pre[3].shape) = 1
    /\ Size(heap[ret.value].shape) > 1

-----------------------------------------------------------------------------
(* Properties of redshift, checked under SpecRedshift.                      *)

RedshiftDone == pc = "done" /\ call.op = "redshift"

Given(x) == x # None

Conflicting ==
    \/ Given(call.options.z)
         /\ (Given(call.options.z_in) \/ Given(call.options.z_out))
    \/ ~Given(call.options.z)
         /\ (~Given(call.options.z_in) \/ ~Given(call.options.z_out))

\* C1: redshift fails with ConflictingRedshiftSpec exactly when z is given
\* together with z_in or z_out, or z is absent and z_in or z_out is absent;
\* otherwise the pair is (0, z) when z is given and (z_in, z_out) as given.
\* The failure comes before any input is extracted and any array written.
C1_OptionResolution ==
    (call.op = "redshift" /\ pc # "called") =>
        /\ ret.err = "ConflictingRedshiftSpec" <=> Conflicting
        /\ Conflicting =>
              /\ pc = "done"
              /\ arrays_in = <<>> /\ arrays_out = <<>> /\ data_out = None
              /\ heap = pre
        /\ ~Conflicting =>
              IF Given(call.options.z)
              THEN z_in = Some(0) /\ z_out = call.options.z
              ELSE z_in = call.options.z_in /\ z_out = call.options.z_out

\* z = 0 alone is a valid specification: the transform goes on to its end
C1_Witness ==
    /\ RedshiftDone
    /\ ret.err = "none"
    /\ call.options.z = Some(0)
    /\ z_in = Some(0) /\ z_out = Some(0)

\* the names of the input columns already transformed
Visited ==
    {call.columns[i][1] : i \in 1..(Len(arrays_in) - Len(todo))}

\* the exact value of a transformed column
Exact(name) ==
    [k \in 1..MaxLen |->
        Rescaled(pre[Get(call.columns, name)].data[k],
                 Num(z_in[1]), Num(z_out[1]), ClaimedExponent(name))]

\* C4 as stated: after a successful call the output holds, for every input
\* column, exactly y_in * ((1 + z_out) / (1 + z_in)) ** n, n the registry's
\* exponent or 0.
C4_EndToEnd ==
    (RedshiftDone /\ ret.err = "none") =>
        \A i \in 1..Len(call.columns) :
            LET name == call.columns[i][1]
            IN  /\ Has(ret.value[1], name)
                /\ heap[Get(ret.value[1], name)].data = Exact(name)

Supplied == call.options.data_out # None

\* C5 as stated: a data_out that lacks an input column makes the call fail
\* (with MissingOutputColumn, when nothing fails before), and a failed call
\* has written no column of data_out.
C5_Original ==
    (RedshiftDone /\ Supplied) =>
        /\ (\E i \in 1..Len(call.columns) :
                ~Has(call.options.data_out[1], call.columns[i][1]))
              => ret.err # "none"
        /\ ret.err # "none" =>
              \A j \in 1..Len(call.options.data_out[1]) :
                  heap[call.options.data_out[1][j][2]]
                      = pre[call.options.data_out[1][j][2]]

\* C5, amended: a data_out that lacks an input column makes the call fail,
\* with MissingOutputColumn when the loop reaches that column; when a call
\* fails, the columns of data_out that come before the failing one in the
\* input order hold their transformed values, and every other column of
\* data_out holds the values it had before the call.
C5_FailureKeepsLaterColumns ==
    (RedshiftDone /\ Supplied) =>
        /\ (\E i \in 1..Len(call.columns) :
                ~Has(call.options.data_out[1], call.columns[i][1]))
              => ret.err # "none"
        /\ ret.err = "MissingOutputColumn" =>
              ~Has(call.options.data_out[1], Head(todo))
        /\ (ret.err \notin {"none", "ConflictingRedshiftSpec"}
              /\ ~Has(call.options.data_out[1], Head(todo)))
              => ret.err = "MissingOutputColumn"
        /\ ret.err # "none" =>
              \A j \in 1..Len(call.options.data_out[1]) :
                  LET name == call.options.data_out[1][j][1]
                      r == call.options.data_out[1][j][2]
                  IN  IF name \in Visited
                      THEN heap[r].data =
                             [k \in 1..MaxLen |->
                                 Cast(Exact(name)[k], pre[r].dtype)]
                      ELSE heap[r] = pre[r]

\* the second input column is missing from data_out, and the first has been
\* overwritten
C5_Witness ==
    /\ RedshiftDone
    /\ Supplied
    /\ ret.err = "MissingOutputColumn"
    /\ Len(call.columns) - Len(todo) = 1
    /\ \E j \in 1..Len(call.options.data_out[1]) :
          heap[call.options.data_out[1][j][2]]
              # pre[call.options.data_out[1][j][2]]

\* C7 as stated: after a successful call the columns of the output are in
\* the order of the input's, data_out given or not.
C7_Original ==
    (RedshiftDone /\ ret.err = "none") =>
        Keys(ret.value[1]) = Keys(call.columns)

\* C7, amended: after a successful call without data_out the columns of the
\* output are the input's, in the input's order; with data_out they are
\* data_out's own columns in data_out's own order, the input's among them.
C7_ColumnOrder ==
    (RedshiftDone /\ ret.err = "none") =>
        /\ Keys(ret.value[1]) = Keys(arrays_out)
        /\ IF Supplied
           THEN /\ Keys(arrays_out) = Keys(call.options.data_out[1])
                /\ \A i \in 1..Len(call.columns) :
                      Has(arrays_out, call.columns[i][1])
           ELSE Keys(arrays_out) = Keys(call.columns)

\* two input columns and a data_out that holds them in the other order
C7_Witness ==
    /\ RedshiftDone
    /\ ret.err = "none"
    /\ Supplied
    /\ Len(call.columns) = 2
    /\ Keys(ret.value[1]) = <<call.columns[2][1], call.columns[1][1]>>

-----------------------------------------------------------------------------
(* Properties of apply_redshift_transform, checked under SpecBulk.          *)

BulkDone == pc = "done" /\ call.op = "apply_redshift_transform"

\* C8 as stated: after a successful call every data_out[name] holds
\* data_in[name] * ((1 + z_out) / (1 + z_in)) ** n, n the table's exponent
\* or 0, data_in[name] being what it was at the call: for n = 0 data_out[name]
\* holds data_in[name] whether the copy was made or skipped.
C8_BulkPostcondition ==
    (BulkDone /\ ret.err = "none") =>
        \A j \in 1..Len(call.data_out) :
            LET name == call.data_out[j][1]
                src == Read(pre, Get(call.data_in, name))
                n == IF call.exponent[name] = None
                     THEN 0 ELSE call.exponent[name][1]
            IN  Read(heap, call.data_out[j][2]) =
                    [k \in 1..Len(src) |->
                        Rescaled(src[k], Num(call.z_in), Num(call.z_out), n)]

====
